---- MODULE Spec2Model ----
(***************************************************************************)
(* Account-level request orchestration of the Swift proxy                  *)
(* (swift/proxy/controllers/account.py) and the gatekeeper middleware      *)
(* (swift/common/middleware/gatekeeper.py).                                *)
(*                                                                         *)
(* The controller is modelled one handler step per action; the position    *)
(* in the handler is pc.  Collaborators whose code lives outside the two   *)
(* files (the ring, make_requests, GETorHEAD_base, autocreate_account,     *)
(* check_metadata, memcache, remove_items) are modelled at their           *)
(* interface.                                                              *)
(***************************************************************************)
EXTENDS Integers, Sequences, FiniteSets, TLC

\* ---------------------------------------------------------------- bounds
\* Largest replica count of the account ring.
MaxReplicas == 3
\* Most headers on one request or response at the gatekeeper.
MaxHeaders == 2

\* ------------------------------------------------------------- constants
\* swift.common.constraints.MAX_ACCOUNT_NAME_LENGTH
MAX_ACCOUNT_NAME_LENGTH == 256
HTTP_OK == 200
HTTP_NO_CONTENT == 204
HTTP_BAD_REQUEST == 400
HTTP_NOT_FOUND == 404
HTTP_METHOD_NOT_ALLOWED == 405
HTTP_SERVICE_UNAVAILABLE == 503

Methods == {"GET", "HEAD", "PUT", "POST", "DELETE"}
WriteMethods == {"PUT", "POST", "DELETE"}

\* What one replica can answer to one request (a ReplicaOutcome's class).
Outcomes == {"success", "not_found", "server_error", "timeout"}

VARIABLES
    allow_account_management,  \* app.allow_account_management
    account_autocreate,        \* app.account_autocreate
    memcache,                  \* app.memcache is configured
    memcache_up,               \* the cache store can be reached
    replica_count,             \* replicas per partition in app.account_ring
    pc,                        \* position of the controller in its handler
    req,                       \* the request: method, name length, ...
    allowed_methods,           \* self.allowed_methods
    accounts,                  \* nodes returned by account_ring.get_nodes
    outcomes,                  \* per-node outcomes of the latest fan-out
    completed,                 \* nodes of a read whose call has completed
    resp,                      \* the latest response object
    trace,                     \* collaborator calls made for this request
    cache,                     \* memcache entry under the account's key
    replay,                    \* the replicas' answers when a request is repeated
    rpc,                       \* position of the concurrent reader
    rval,                      \* account info the reader fetched from the replicas
    hit,                       \* what the reader's latest cache hit served
    gpc,                       \* position of the gatekeeper in __call__
    g_sent,                    \* headers of the request as the client sent it
    g_req,                     \* req.headers
    g_seen,                    \* headers of the request the application received
    g_set,                     \* headers of the response as the application set it
    g_resp,                    \* resp.headers
    g_got,                     \* headers of the response the client received
    g_removed,                 \* removed
    g_steps                    \* the steps of __call__ taken for this request

ctlVars == <<allow_account_management, account_autocreate, memcache,
             memcache_up, replica_count, pc, req, allowed_methods, accounts, outcomes,
             completed, resp, trace, cache, replay>>

readerVars == <<rpc, rval, hit>>

gateVars == <<gpc, g_sent, g_req, g_seen, g_set, g_resp, g_got, g_removed,
              g_steps>>

\* The state of the processes other than the controller.
bystanders == <<readerVars, gateVars>>

vars == <<ctlVars, bystanders>>

\* ------------------------------------------------------ pure definitions
IsSuccess(status) == status >= 200 /\ status < 300

\* The longest name that is accepted and the shortest that is not.
NameLengths == {MAX_ACCOUNT_NAME_LENGTH, MAX_ACCOUNT_NAME_LENGTH + 1}

Requests ==
    [method : Methods, name_len : NameLengths, meta_ok : BOOLEAN,
     query_string : BOOLEAN]

\* A response object: its status, the replica whose answer it carries (0 when
\* it was built by the proxy), the Allow header, the account usage headers and
\* what the body of an error response is about ("" when it says nothing).
Response(status, node, allow, headers) ==
    [status |-> status, node |-> node, allow |-> allow, headers |-> headers,
     body |-> ""]

NoResponse == Response(0, 0, {}, {})

HTTPBadRequest == Response(HTTP_BAD_REQUEST, 0, {}, {})

HTTPMethodNotAllowed(allow) == Response(HTTP_METHOD_NOT_ALLOWED, 0, allow, {})

\* The headers of the faked account of GETorHEAD.
FakeHeaders ==
    {<<"X-Account-Bytes-Used", 0>>, <<"X-Account-Container-Count", 0>>,
     <<"X-Account-Object-Count", 0>>}

HTTPNoContent(headers) == Response(HTTP_NO_CONTENT, 0, {}, headers)

\* Controller.allowed_methods: the @public methods of the controller.
PublicMethods == Methods

\* Variant of __init__ that forgets to remove DELETE.
InitAllowedMethods_keepsDelete(mgmt) ==
    IF ~mgmt THEN PublicMethods \ {"PUT"} ELSE PublicMethods

\* AccountController.__init__
InitAllowedMethods(mgmt) ==
    IF ~mgmt THEN PublicMethods \ {"PUT", "DELETE"} ELSE PublicMethods

\* What a check returns: the status and the body of its error response,
\* status 0 when it returns none.
Verdict(status, body) == [status |-> status, body |-> body]

NoError == Verdict(0, "")

\* check_metadata(req, 'account'): an error response or nothing.
check_metadata(r) ==
    IF r.meta_ok THEN NoError ELSE Verdict(HTTP_BAD_REQUEST, "metadata")

\* resp.body = 'Account name length of %d longer than %d' % ...
NameLengthError == Verdict(HTTP_BAD_REQUEST, "name_length")

NameTooLong(r) == r.name_len > MAX_ACCOUNT_NAME_LENGTH

\* The checks at the head of each handler: the error response they return,
\* NoError when the handler goes on.
GETorHEAD_checks(r) == IF NameTooLong(r) THEN NameLengthError ELSE NoError

PUT_checks(r, mgmt) ==
    IF ~mgmt THEN Verdict(HTTP_METHOD_NOT_ALLOWED, "")
    ELSE IF check_metadata(r) # NoError THEN check_metadata(r)
    ELSE IF NameTooLong(r) THEN NameLengthError
    ELSE NoError

\* Variant of the POST checks that refuses the request when account
\* management is disabled, as PUT does.
POST_checks_managed(r) ==
    IF ~allow_account_management THEN Verdict(HTTP_METHOD_NOT_ALLOWED, "")
    ELSE IF NameTooLong(r) THEN NameLengthError
    ELSE IF check_metadata(r) # NoError THEN check_metadata(r)
    ELSE NoError

\* Variant of the POST checks that validates the metadata before it looks at
\* the length of the name, as PUT does.
POST_checks_metadataFirst(r) ==
    IF check_metadata(r) # NoError THEN check_metadata(r)
    ELSE IF NameTooLong(r) THEN NameLengthError
    ELSE NoError

POST_checks(r) ==
    IF NameTooLong(r) THEN NameLengthError
    ELSE IF check_metadata(r) # NoError THEN check_metadata(r)
    ELSE NoError

\* Variant of the DELETE checks that looks at account management first.
DELETE_checks_managementFirst(r, mgmt) ==
    IF ~mgmt THEN Verdict(HTTP_METHOD_NOT_ALLOWED, "")
    ELSE IF r.query_string THEN Verdict(HTTP_BAD_REQUEST, "")
    ELSE NoError

DELETE_checks(r, mgmt) ==
    IF r.query_string THEN Verdict(HTTP_BAD_REQUEST, "")
    ELSE IF ~mgmt THEN Verdict(HTTP_METHOD_NOT_ALLOWED, "")
    ELSE NoError

\* The response of a failed check.
CheckResponse(verdict, allow) ==
    IF verdict.status = HTTP_METHOD_NOT_ALLOWED
    THEN HTTPMethodNotAllowed(allow)
    ELSE [Response(verdict.status, 0, {}, {}) EXCEPT !.body = verdict.body]

\* account_ring.get_nodes: the replica nodes of the partition, in ring order.
get_nodes(n) == 1 .. n

\* Variant that passes [headers], a single envelope.
EnvelopeCount_single(nodes) == 1

\* [headers] * len(accounts): one envelope per replica.
EnvelopeCount(nodes) == Cardinality(nodes)

\* The outcomes make_requests collects: a node it has no envelope for is not
\* contacted and counts as service-unavailable.
Collected(o, k) ==
    [i \in DOMAIN o |-> IF i <= k THEN o[i] ELSE "not_sent"]

NumSuccess(o) == Cardinality({i \in DOMAIN o : o[i] = "success"})

Majority(n) == (n \div 2) + 1

\* Reduction of a write fan-out: success with a majority of successes,
\* otherwise the error, a client error preferred to a server error.
best_response(o) ==
    IF NumSuccess(o) >= Majority(Cardinality(DOMAIN o))
    THEN Response(HTTP_OK, 0, {}, {})
    ELSE IF \E i \in DOMAIN o : o[i] = "not_found"
    THEN Response(HTTP_NOT_FOUND, 0, {}, {})
    ELSE Response(HTTP_SERVICE_UNAVAILABLE, 0, {}, {})

\* make_requests: the decision over the collected outcomes.
make_requests(o) == best_response(o)

\* Whether the decision of a read is settled by the calls completed so far:
\* some node succeeded and every node before it in ring order has answered,
\* or every node has answered.
ReadSettled(o, done) ==
    \/ \E i \in done : o[i] = "success" /\ \A j \in 1 .. (i - 1) : j \in done
    \/ done = DOMAIN o

\* Reduction of a read over the completed calls: the first node in ring order
\* that succeeded, otherwise not-found if any node said so, otherwise
\* service-unavailable.
read_response(o, done) ==
    IF \E i \in done : o[i] = "success"
    THEN LET first == CHOOSE i \in done :
                          /\ o[i] = "success"
                          /\ \A j \in done : o[j] = "success" => i <= j
         IN  Response(HTTP_OK, first, {}, {})
    ELSE IF \E i \in done : o[i] = "not_found"
    THEN Response(HTTP_NOT_FOUND, 0, {}, {})
    ELSE Response(HTTP_SERVICE_UNAVAILABLE, 0, {}, {})

Count(ev) == Cardinality({i \in DOMAIN trace : trace[i] = ev})

\* Position of the first occurrence of ev in the trace, 0 if there is none.
FirstIndex(ev) ==
    IF \E i \in DOMAIN trace : trace[i] = ev
    THEN CHOOSE i \in DOMAIN trace :
             trace[i] = ev /\ \A j \in DOMAIN trace : trace[j] = ev => i <= j
    ELSE 0

\* ------------------------------------------------------------ the state
NoRequest ==
    [method |-> "none", name_len |-> 0, meta_ok |-> TRUE,
     query_string |-> FALSE]

\* No request is repeated: every fan-out is answered freely.
NoReplay == [on |-> FALSE, req |-> NoRequest, out |-> <<>>, prev |-> 0]

ReaderIdle == rpc = "idle" /\ rval = "none" /\ hit = "none"

GateIdle ==
    /\ gpc = "idle"
    /\ g_sent = <<>> /\ g_req = <<>> /\ g_seen = <<>>
    /\ g_set = <<>> /\ g_resp = <<>> /\ g_got = <<>>
    /\ g_removed = <<>>
    /\ g_steps = <<>>

InitRequestState ==
    /\ ReaderIdle
    /\ GateIdle
    /\ pc = "idle"
    /\ req = NoRequest
    /\ allowed_methods = {}
    /\ accounts = {}
    /\ outcomes = <<>>
    /\ completed = {}
    /\ resp = NoResponse
    /\ trace = <<>>

Init ==
    /\ allow_account_management \in BOOLEAN
    /\ account_autocreate \in BOOLEAN
    /\ memcache \in BOOLEAN
    /\ memcache_up \in IF memcache THEN BOOLEAN ELSE {FALSE}
    /\ replica_count \in 1 .. MaxReplicas
    /\ cache \in IF memcache THEN {"none", "old"} ELSE {"none"}
    /\ replay = NoReplay
    /\ InitRequestState

config == <<allow_account_management, account_autocreate, memcache,
            memcache_up, replica_count>>

\* The answers the replicas may give to the next fan-out of this request:
\* any, unless the request repeats one whose fan-out was answered before.
Answers ==
    LET k == Count("make_requests") + Count("GETorHEAD_base") + 1
    IN  IF replay.on /\ k <= Len(replay.out)
        THEN {replay.out[k]}
        ELSE [accounts -> Outcomes]

\* The answers given so far, remembered when requests are repeated.
Remember(o) ==
    LET k == Count("make_requests") + Count("GETorHEAD_base") + 1
    IN  IF replay.on /\ k > Len(replay.out)
        THEN [replay EXCEPT !.out = Append(@, o)]
        ELSE replay

\* ------------------------------------------------------------ the steps
\* A request of R arrives and its controller is constructed (__init__).  A
\* repeated request is the one that came before.
Arrive(R) ==
    /\ pc = "idle"
    /\ \E r \in R :
        /\ replay.on /\ replay.req # NoRequest => r = replay.req
        /\ req' = r
        /\ replay' = IF replay.on THEN [replay EXCEPT !.req = r] ELSE replay
        /\ pc' = IF r.method \in {"GET", "HEAD"} THEN "GETorHEAD" ELSE r.method
    /\ allowed_methods' = InitAllowedMethods(allow_account_management)
    /\ UNCHANGED <<config, bystanders, accounts, outcomes, completed, resp, trace, cache>>

NewRequest == Arrive(Requests)

\* Variant of the handlers that drops the cached account info before it
\* returns the response of a failed check.
Reject_invalidates(verdict) ==
    /\ resp' = CheckResponse(verdict, allowed_methods)
    /\ pc' = "done"
    /\ IF memcache
       THEN /\ trace' = Append(trace, "memcache_delete")
            /\ cache' = IF memcache_up THEN "none" ELSE cache
       ELSE UNCHANGED <<trace, cache>>
    /\ UNCHANGED <<config, bystanders, req, allowed_methods, accounts, outcomes,
                   completed, replay>>

\* A handler returns the response of a failed check.
Reject(verdict) ==
    /\ resp' = CheckResponse(verdict, allowed_methods)
    /\ pc' = "done"
    /\ UNCHANGED <<config, bystanders, req, allowed_methods, accounts, outcomes,
                   completed, trace, cache, replay>>

\* A handler passes its checks.
Pass(next) ==
    /\ pc' = next
    /\ UNCHANGED <<config, bystanders, req, allowed_methods, accounts, outcomes,
                   completed, resp, trace, cache, replay>>

\* partition, nodes = self.app.account_ring.get_nodes(self.account_name)
GetNodes(here, next) ==
    /\ pc = here
    /\ accounts' = get_nodes(replica_count)
    /\ trace' = Append(trace, "get_nodes")
    /\ pc' = next
    /\ UNCHANGED <<config, bystanders, req, allowed_methods, outcomes, completed, resp,
                   cache, replay>>

\* Variant of a handler that goes on to the fan-out without the cache delete.
MemcacheDelete_omitted(here, next) ==
    /\ pc = here
    /\ pc' = next
    /\ UNCHANGED <<config, bystanders, req, allowed_methods, accounts, outcomes,
                   completed, resp, trace, cache, replay>>

\* Variant of the cache delete whose failure ends the request with a
\* service-unavailable answer.
MemcacheDelete_aborts(here, next) ==
    /\ pc = here
    /\ IF memcache
       THEN /\ trace' = Append(trace, "memcache_delete")
            /\ cache' = IF memcache_up THEN "none" ELSE cache
       ELSE UNCHANGED <<trace, cache>>
    /\ IF memcache /\ ~memcache_up
       THEN /\ resp' = Response(HTTP_SERVICE_UNAVAILABLE, 0, {}, {})
            /\ pc' = "done"
       ELSE /\ resp' = resp
            /\ pc' = next
    /\ UNCHANGED <<config, bystanders, req, allowed_methods, accounts, outcomes,
                   completed, replay>>

\* if self.app.memcache: self.app.memcache.delete(key).  The delete is
\* best-effort: a store that cannot be reached leaves the entry as it is.
MemcacheDelete(here, next) ==
    /\ pc = here
    /\ IF memcache
       THEN /\ trace' = Append(trace, "memcache_delete")
            /\ cache' = IF memcache_up THEN "none" ELSE cache
       ELSE UNCHANGED <<trace, cache>>
    /\ pc' = next
    /\ UNCHANGED <<config, bystanders, req, allowed_methods, accounts, outcomes,
                   completed, resp, replay>>

\* resp = self.make_requests(req, ring, partition, method, path,
\*                           [headers] * len(accounts))
MakeRequests(here, k) ==
    /\ pc = here
    /\ \E o \in Answers :
        /\ outcomes' = Collected(o, k)
        /\ resp' = make_requests(Collected(o, k))
        /\ replay' = Remember(o)
    /\ trace' = Append(trace, "make_requests")
    /\ UNCHANGED <<config, bystanders, req, allowed_methods, accounts, completed, cache>>

\* GETorHEAD, lines 51-55
GETorHEAD_check ==
    /\ pc = "GETorHEAD"
    /\ IF GETorHEAD_checks(req) # NoError
       THEN Reject(GETorHEAD_checks(req))
       ELSE Pass("GETorHEAD_nodes")

\* GETorHEAD, line 57
GETorHEAD_get_nodes == GetNodes("GETorHEAD_nodes", "GETorHEAD_base")

\* GETorHEAD_base sends the read to the replicas.
GETorHEAD_base_send ==
    /\ pc = "GETorHEAD_base"
    /\ \E o \in Answers :
        /\ outcomes' = o
        /\ replay' = Remember(o)
    /\ completed' = {}
    /\ trace' = Append(trace, "GETorHEAD_base")
    /\ pc' = "GETorHEAD_wait"
    /\ UNCHANGED <<config, bystanders, req, allowed_methods, accounts, resp, cache>>

\* The call to one replica completes.
GETorHEAD_base_complete ==
    /\ pc = "GETorHEAD_wait"
    /\ \E i \in accounts \ completed : completed' = completed \cup {i}
    /\ UNCHANGED <<config, bystanders, pc, req, allowed_methods, accounts, outcomes,
                   resp, trace, cache, replay>>

\* GETorHEAD_base returns its decision; outstanding calls are abandoned.
GETorHEAD_base_return ==
    /\ pc = "GETorHEAD_wait"
    /\ ReadSettled(outcomes, completed)
    /\ resp' = read_response(outcomes, completed)
    /\ pc' = "GETorHEAD_fake"
    /\ UNCHANGED <<config, bystanders, req, allowed_methods, accounts, outcomes,
                   completed, trace, cache, replay>>

\* Variant of line 61 with "or" for "and".
FakeAccount_or(status, autocreate) == status = HTTP_NOT_FOUND \/ autocreate

\* Whether GETorHEAD fakes the account (line 61).
FakeAccount(status, autocreate) == status = HTTP_NOT_FOUND /\ autocreate

\* Variant of lines 61-71 that creates the account it fakes.
GETorHEAD_return_creates ==
    /\ pc = "GETorHEAD_fake"
    /\ resp' = IF FakeAccount(resp.status, account_autocreate)
               THEN HTTPNoContent(FakeHeaders)
               ELSE resp
    /\ trace' = IF FakeAccount(resp.status, account_autocreate)
                THEN Append(trace, "autocreate_account")
                ELSE trace
    /\ pc' = "done"
    /\ UNCHANGED <<config, bystanders, req, allowed_methods, accounts, outcomes,
                   completed, cache, replay>>

\* GETorHEAD, lines 61-71
GETorHEAD_return ==
    /\ pc = "GETorHEAD_fake"
    /\ resp' = IF FakeAccount(resp.status, account_autocreate)
               THEN HTTPNoContent(FakeHeaders)
               ELSE resp
    /\ pc' = "done"
    /\ UNCHANGED <<config, bystanders, req, allowed_methods, accounts, outcomes,
                   completed, trace, cache, replay>>

\* PUT, lines 76-87
PUT_check ==
    /\ pc = "PUT"
    /\ IF PUT_checks(req, allow_account_management) # NoError
       THEN Reject(PUT_checks(req, allow_account_management))
       ELSE Pass("PUT_nodes")

\* PUT, lines 88-90
PUT_get_nodes == GetNodes("PUT_nodes", "PUT_memcache")

\* PUT, lines 91-93
PUT_memcache == MemcacheDelete("PUT_memcache", "PUT_requests")

\* Variant of PUT that treats a missing account as POST does (lines 119-120).
PUT_make_requests_retries ==
    /\ MakeRequests("PUT_requests", EnvelopeCount(accounts))
    /\ pc' = IF resp'.status = HTTP_NOT_FOUND /\ account_autocreate
             THEN "POST_autocreate"
             ELSE "done"

\* PUT, lines 94-97
PUT_make_requests ==
    /\ MakeRequests("PUT_requests", EnvelopeCount(accounts))
    /\ pc' = "done"

\* POST, lines 102-109
POST_check ==
    /\ pc = "POST"
    /\ IF POST_checks(req) # NoError
       THEN Reject(POST_checks(req))
       ELSE Pass("POST_nodes")

\* POST, lines 110-112
POST_get_nodes == GetNodes("POST_nodes", "POST_memcache")

\* POST, lines 113-115
POST_memcache == MemcacheDelete("POST_memcache", "POST_requests")

\* Whether POST creates the account and tries again (line 119).
RetryPost(status, autocreate) == status = HTTP_NOT_FOUND /\ autocreate

\* POST, lines 116-119
POST_make_requests ==
    /\ MakeRequests("POST_requests", EnvelopeCount(accounts))
    /\ pc' = IF RetryPost(resp'.status, account_autocreate)
             THEN "POST_autocreate"
             ELSE "done"

\* Variant of line 120 that gives up with the first decision when the implicit
\* create fails.
POST_autocreate_checked ==
    /\ pc = "POST_autocreate"
    /\ \E created \in BOOLEAN :
           /\ trace' = IF created
                       THEN Append(trace, "autocreate_account")
                       ELSE trace \o <<"autocreate_account", "autocreate_failed">>
           /\ pc' = IF created THEN "POST_retry" ELSE "done"
    /\ UNCHANGED <<config, bystanders, req, allowed_methods, accounts, outcomes,
                   completed, resp, cache, replay>>

\* POST, line 120: the implicit create.  It succeeds or fails; the handler
\* does not look at its outcome.
POST_autocreate ==
    /\ pc = "POST_autocreate"
    /\ \E created \in BOOLEAN :
           trace' = IF created
                    THEN Append(trace, "autocreate_account")
                    ELSE trace \o <<"autocreate_account", "autocreate_failed">>
    /\ pc' = "POST_retry"
    /\ UNCHANGED <<config, bystanders, req, allowed_methods, accounts, outcomes,
                   completed, resp, cache, replay>>

\* Variant of lines 119-124 that keeps retrying while the account is missing.
POST_retry_loops ==
    /\ MakeRequests("POST_retry", EnvelopeCount(accounts))
    /\ pc' = IF RetryPost(resp'.status, account_autocreate)
             THEN "POST_autocreate"
             ELSE "done"

\* POST, lines 121-124
POST_retry ==
    /\ MakeRequests("POST_retry", EnvelopeCount(accounts))
    /\ pc' = "done"

\* DELETE, lines 132-137
DELETE_check ==
    /\ pc = "DELETE"
    /\ IF DELETE_checks(req, allow_account_management) # NoError
       THEN Reject(DELETE_checks(req, allow_account_management))
       ELSE Pass("DELETE_nodes")

\* DELETE, lines 138-140
DELETE_get_nodes == GetNodes("DELETE_nodes", "DELETE_memcache")

\* DELETE, lines 141-143
DELETE_memcache == MemcacheDelete("DELETE_memcache", "DELETE_requests")

\* DELETE, lines 144-147
DELETE_make_requests ==
    /\ MakeRequests("DELETE_requests", EnvelopeCount(accounts))
    /\ pc' = "done"

\* The response has been sent; the controller is discarded.
Finish ==
    /\ pc = "done"
    /\ pc' = "idle"
    /\ req' = NoRequest
    /\ allowed_methods' = {}
    /\ accounts' = {}
    /\ outcomes' = <<>>
    /\ completed' = {}
    /\ resp' = NoResponse
    /\ trace' = <<>>
    /\ replay' = IF replay.on THEN [replay EXCEPT !.prev = resp.status]
                 ELSE replay
    /\ UNCHANGED <<config, bystanders, cache>>

Next ==
    \/ NewRequest
    \/ GETorHEAD_check
    \/ GETorHEAD_get_nodes
    \/ GETorHEAD_base_send
    \/ GETorHEAD_base_complete
    \/ GETorHEAD_base_return
    \/ GETorHEAD_return
    \/ PUT_check
    \/ PUT_get_nodes
    \/ PUT_memcache
    \/ PUT_make_requests
    \/ POST_check
    \/ POST_get_nodes
    \/ POST_memcache
    \/ POST_make_requests
    \/ POST_autocreate
    \/ POST_retry
    \/ DELETE_check
    \/ DELETE_get_nodes
    \/ DELETE_memcache
    \/ DELETE_make_requests
    \/ Finish

Spec == Init /\ [][Next]_vars

\* ------------------------------------------------- a POST that is repeated
\* The same POST is issued again and again, and the replicas answer each of
\* its fan-outs as they answered it the first time.
\* POST does not read allow_account_management either: it is left disabled.
InitRepeat ==
    /\ allow_account_management = FALSE
    /\ account_autocreate \in BOOLEAN
    /\ memcache \in BOOLEAN
    /\ memcache_up = memcache
    /\ replica_count \in 1 .. MaxReplicas
    /\ cache = "none"
    /\ replay = [NoReplay EXCEPT !.on = TRUE]
    /\ InitRequestState

\* POST does not read the query string: the repeated POST carries none.
RepeatedPost ==
    Arrive({r \in Requests : r.method = "POST" /\ ~r.query_string})

NextRepeat ==
    \/ RepeatedPost
    \/ POST_check
    \/ POST_get_nodes
    \/ POST_memcache
    \/ POST_make_requests
    \/ POST_autocreate
    \/ POST_retry
    \/ Finish

SpecRepeat == InitRepeat /\ [][NextRepeat]_vars

\* ------------------------------------------- a reader beside one write
\* What the replicas hold: the account info as the write leaves it once the
\* write has been acknowledged, the info from before the write until then.
Stored ==
    IF req.method \in WriteMethods /\ Count("make_requests") > 0
       /\ IsSuccess(resp.status)
    THEN "new"
    ELSE "old"

\* The write has been sent to the replicas: it is in flight or completed.
WriteDispatched == req.method \in WriteMethods /\ Count("make_requests") > 0

\* The reader looks the account up in the cache: a hit is served, a miss
\* sends it to the replicas.  A hit is stale when it serves the info from
\* before a write that has been sent and that the replicas have taken.
ReaderGet ==
    /\ memcache /\ memcache_up
    /\ rpc = "idle"
    /\ IF cache # "none"
       THEN /\ hit' = IF cache = "old" /\ WriteDispatched /\ Stored = "new"
                      THEN "stale" ELSE "current"
            /\ UNCHANGED rpc
       ELSE /\ rpc' = "miss"
            /\ UNCHANGED hit
    /\ UNCHANGED <<ctlVars, gateVars, rval>>

\* The reader reads the account from the replicas.
ReaderFetch ==
    /\ rpc = "miss"
    /\ rval' = Stored
    /\ rpc' = "fetched"
    /\ UNCHANGED <<ctlVars, gateVars, hit>>

\* The reader fills the cache with what it read.
ReaderSet ==
    /\ rpc = "fetched"
    /\ cache' = rval
    /\ rpc' = "idle"
    /\ rval' = "none"
    /\ UNCHANGED <<config, pc, req, allowed_methods, accounts, outcomes,
                   completed, resp, trace, replay, hit, gateVars>>

InitRace ==
    /\ allow_account_management \in BOOLEAN
    /\ account_autocreate \in BOOLEAN
    /\ memcache = TRUE
    /\ memcache_up = TRUE
    /\ replica_count \in 1 .. MaxReplicas
    /\ cache \in {"none", "old"}
    /\ replay = NoReplay
    /\ InitRequestState

WriteRequest == Arrive({r \in Requests : r.method \in WriteMethods})

NextRace ==
    \/ WriteRequest
    \/ PUT_check
    \/ PUT_get_nodes
    \/ PUT_memcache
    \/ PUT_make_requests
    \/ POST_check
    \/ POST_get_nodes
    \/ POST_memcache
    \/ POST_make_requests
    \/ POST_autocreate
    \/ POST_retry
    \/ DELETE_check
    \/ DELETE_get_nodes
    \/ DELETE_memcache
    \/ DELETE_make_requests
    \/ ReaderGet
    \/ ReaderFetch
    \/ ReaderSet

SpecRace == InitRace /\ [][NextRace]_vars

\* ---------------------------------------------------------- gatekeeper
\* A header name is a sequence of pieces; the pieces tell upper from lower
\* case.
Pieces ==
    {"x-", "X-", "account-", "Account-", "container-", "object-", "OBJECT-",
     "sysmeta-", "SysMeta-", "meta-", "foo"}

\* str.lower(), piece by piece.
LowerPiece(p) ==
    CASE p = "X-" -> "x-"
      [] p = "Account-" -> "account-"
      [] p = "OBJECT-" -> "object-"
      [] p = "SysMeta-" -> "sysmeta-"
      [] OTHER -> p

HeaderNames ==
    {<<"x-", "account-", "sysmeta-", "foo">>,
     <<"X-", "Account-", "SysMeta-">>,
     <<"x-", "container-", "sysmeta-", "foo">>,
     <<"X-", "OBJECT-", "sysmeta-", "foo">>,
     <<"x-", "account-", "meta-", "foo">>,
     <<"foo", "x-", "account-", "sysmeta-">>,
     <<"foo">>}

HeaderValues == {"v", "w"}

\* The header mappings with at most MaxHeaders headers.
HeaderMaps ==
    UNION {[S -> HeaderValues] :
               S \in {T \in SUBSET HeaderNames : Cardinality(T) <= MaxHeaders}}

\* get_sys_meta_prefix(server_type): 'x-<server_type>-sysmeta-'
get_sys_meta_prefix(server_type) == <<"x-", server_type, "sysmeta-">>

inbound_exclusions ==
    <<get_sys_meta_prefix("account-"), get_sys_meta_prefix("container-"),
      get_sys_meta_prefix("object-")>>

\* Variant of line 56 that excludes the account prefix only on the way out.
outbound_exclusions_accountOnly == <<get_sys_meta_prefix("account-")>>

outbound_exclusions == inbound_exclusions

\* Variant of the test that searches the pattern anywhere in the name
\* (re.search in place of re.match).
MatchesAtStart_search(pattern, name) ==
    \E off \in 0 .. Len(name) :
        /\ Len(name) >= off + Len(pattern)
        /\ \A i \in 1 .. Len(pattern) :
               LowerPiece(name[off + i]) = LowerPiece(pattern[i])

\* re.match of one pattern with re.IGNORECASE: the pattern is found at the
\* start of the name, case ignored.
MatchesAtStart(pattern, name) ==
    /\ Len(name) >= Len(pattern)
    /\ \A i \in 1 .. Len(pattern) :
           LowerPiece(name[i]) = LowerPiece(pattern[i])

\* make_exclusion_test(exclusions), applied to a name: the alternation of the
\* patterns matches.
make_exclusion_test(exclusions, name) ==
    \E k \in DOMAIN exclusions : MatchesAtStart(exclusions[k], name)

\* remove_items(headers, condition): the items removed ...
remove_items(headers, exclusions) ==
    [n \in {m \in DOMAIN headers : make_exclusion_test(exclusions, m)}
        |-> headers[n]]

\* ... and the headers that are left.
Remaining(headers, exclusions) ==
    [n \in {m \in DOMAIN headers : ~make_exclusion_test(exclusions, m)}
        |-> headers[n]]

\* A request reaches the gatekeeper.
GkReceive ==
    /\ gpc = "idle"
    /\ \E h \in HeaderMaps : g_sent' = h /\ g_req' = h
    /\ gpc' = "inbound"
    /\ UNCHANGED <<ctlVars, readerVars, g_seen, g_set, g_resp, g_got,
                   g_removed, g_steps>>

\* __call__, lines 74-76
GkInbound ==
    /\ gpc = "inbound"
    /\ g_removed' = remove_items(g_req, inbound_exclusions)
    /\ g_req' = Remaining(g_req, inbound_exclusions)
    /\ g_steps' = Append(g_steps, "inbound")
    /\ gpc' = "app"
    /\ UNCHANGED <<ctlVars, readerVars, g_sent, g_seen, g_set, g_resp, g_got>>

\* __call__, line 77: the wrapped application takes the request and answers
\* with headers of its choice.
GkApp ==
    /\ gpc = "app"
    /\ g_seen' = g_req
    /\ \E h \in HeaderMaps : g_set' = h /\ g_resp' = h
    /\ g_steps' = Append(g_steps, "app")
    /\ gpc' = "outbound"
    /\ UNCHANGED <<ctlVars, readerVars, g_sent, g_req, g_got, g_removed>>

\* Variant of __call__ that hands the response back as the application set it.
GkOutbound_unfiltered ==
    /\ gpc = "outbound"
    /\ g_steps' = Append(g_steps, "outbound")
    /\ gpc' = "return"
    /\ UNCHANGED <<ctlVars, readerVars, g_sent, g_req, g_seen, g_set, g_resp,
                   g_got, g_removed>>

\* __call__, lines 78-80
GkOutbound ==
    /\ gpc = "outbound"
    /\ g_removed' = remove_items(g_resp, outbound_exclusions)
    /\ g_resp' = Remaining(g_resp, outbound_exclusions)
    /\ g_steps' = Append(g_steps, "outbound")
    /\ gpc' = "return"
    /\ UNCHANGED <<ctlVars, readerVars, g_sent, g_req, g_seen, g_set, g_got>>

\* __call__, line 81
GkReturn ==
    /\ gpc = "return"
    /\ g_got' = g_resp
    /\ g_steps' = Append(g_steps, "return")
    /\ gpc' = "done"
    /\ UNCHANGED <<ctlVars, readerVars, g_sent, g_req, g_seen, g_set, g_resp,
                   g_removed>>

\* The request is over.
GkFinish ==
    /\ gpc = "done"
    /\ gpc' = "idle"
    /\ g_sent' = <<>> /\ g_req' = <<>> /\ g_seen' = <<>>
    /\ g_set' = <<>> /\ g_resp' = <<>> /\ g_got' = <<>>
    /\ g_removed' = <<>>
    /\ g_steps' = <<>>
    /\ UNCHANGED <<ctlVars, readerVars>>

\* The gatekeeper in front of an application that is left open.
InitGate ==
    /\ allow_account_management = FALSE
    /\ account_autocreate = FALSE
    /\ memcache = FALSE
    /\ memcache_up = FALSE
    /\ replica_count = 1
    /\ cache = "none"
    /\ replay = NoReplay
    /\ InitRequestState

NextGate ==
    \/ GkReceive
    \/ GkInbound
    \/ GkApp
    \/ GkOutbound
    \/ GkReturn
    \/ GkFinish

SpecGate == InitGate /\ [][NextGate]_vars

\* ------------------------------------------------------------ the claims
Dispatches == Count("make_requests") + Count("GETorHEAD_base")

\* The response of the request is the one in resp.
Answered == pc = "done"

\* C1: a request whose account name is longer than the maximum is answered
\* bad-request, whatever the operation and the configuration, and no node
\* resolution and no replica dispatch happens in it.
C1_LongNameRejected ==
    NameTooLong(req) =>
        /\ Count("get_nodes") = 0
        /\ Dispatches = 0
        /\ Answered => resp.status = HTTP_BAD_REQUEST

\* C2: in a PUT, POST or DELETE that reaches the replica dispatch with a
\* cache store configured, exactly one cache delete is issued, and it is
\* issued before the first replica request (and before the implicit create):
\* none follows a dispatch, whatever the decision was.
C2_CacheDeleteBeforeDispatch ==
    (req.method \in WriteMethods /\ memcache /\ Count("make_requests") > 0) =>
        /\ Count("memcache_delete") = 1
        /\ FirstIndex("memcache_delete") < FirstIndex("make_requests")
        /\ \A i \in DOMAIN trace :
               trace[i] \in {"make_requests", "autocreate_account"}
                   => FirstIndex("memcache_delete") < i

\* A POST that found the account missing, retried and found it missing again,
\* with a cache store configured.
C2_Witness ==
    /\ Answered
    /\ req.method = "POST"
    /\ memcache
    /\ Count("make_requests") = 2
    /\ resp.status = HTTP_NOT_FOUND

\* C3: with a write (cache delete, then replica fan-out) interleaved with a
\* reader that fills the cache from the replicas on a miss, the reader is
\* never served a cache hit holding the account info from before the write
\* once the write is in flight or completed (here: sent and taken by a
\* majority of the replicas, so that the hit differs from what they hold).
C3_NoStaleCacheHit == hit # "stale"

\* C4: a write fan-out contacts every replica of the partition, and its
\* decision is success if and only if more than half of the replicas (at
\* least floor(N/2)+1) answered success.
C4_WriteQuorum ==
    (req.method \in WriteMethods /\ Count("make_requests") > 0) =>
        /\ DOMAIN outcomes = 1 .. replica_count
        /\ \A i \in DOMAIN outcomes : outcomes[i] \in Outcomes
        /\ IsSuccess(resp.status) <=> 2 * NumSuccess(outcomes) > replica_count

\* Three replicas, two successes and a timeout: the PUT succeeds.
C4_Witness ==
    /\ Answered
    /\ req.method = "PUT"
    /\ outcomes = <<"success", "timeout", "success">>
    /\ IsSuccess(resp.status)

\* C5: when a replica of a read answered success, the response of GET/HEAD is
\* the answer of the first replica in ring order that did, whatever the later
\* replicas answered and in whatever order the calls completed.
C5_ReadFirstSuccess ==
    (/\ req.method \in {"GET", "HEAD"}
     /\ pc \in {"GETorHEAD_fake", "done"}
     /\ \E i \in DOMAIN outcomes : outcomes[i] = "success") =>
        /\ resp.status = HTTP_OK
        /\ resp.node \in DOMAIN outcomes
        /\ outcomes[resp.node] = "success"
        /\ \A j \in 1 .. (resp.node - 1) : outcomes[j] # "success"

\* A and B both succeeded, C completed before A and B never did: A's answer
\* is returned.
C5_Witness ==
    /\ Answered
    /\ req.method = "GET"
    /\ outcomes = <<"success", "success", "not_found">>
    /\ completed = {1, 3}
    /\ resp.node = 1

\* C6: a POST performs at most one implicit create and at most two fan-outs
\* and returns after the second; when the second fan-out is decided not-found
\* (no majority of successes, some replica not-found) that is the response;
\* and the same POST repeated against the same replica answers gets the same
\* status as before.
C6_PostRetryBounded ==
    req.method = "POST" =>
        /\ Count("autocreate_account") <= 1
        /\ Count("make_requests") <= 2
        /\ Count("make_requests") = 2 =>
               /\ Answered
               /\ Count("autocreate_account") = 1
               /\ (/\ 2 * NumSuccess(outcomes) <= replica_count
                   /\ \E i \in DOMAIN outcomes : outcomes[i] = "not_found")
                      => resp.status = HTTP_NOT_FOUND
        /\ (Answered /\ replay.prev # 0) => resp.status = replay.prev

\* The second time round of a POST, autocreate enabled, that found the
\* account missing in both of its fan-outs, both times.
C6_Witness ==
    /\ Answered
    /\ req.method = "POST"
    /\ account_autocreate
    /\ replay.prev = HTTP_NOT_FOUND
    /\ Count("make_requests") = 2
    /\ Count("autocreate_account") = 1
    /\ resp.status = HTTP_NOT_FOUND

\* C7: a GET/HEAD with a valid name whose read decision is not-found, with
\* autocreate enabled, is answered no-content with zero bytes, containers and
\* objects, after one node resolution and one read fan-out and nothing else:
\* no implicit create, no write dispatch, no cache delete.
C7_FakeAccountIsReadOnly ==
    (/\ Answered
     /\ req.method \in {"GET", "HEAD"}
     /\ ~NameTooLong(req)
     /\ account_autocreate
     /\ read_response(outcomes, completed).status = HTTP_NOT_FOUND) =>
        /\ resp.status = HTTP_NO_CONTENT
        /\ resp.headers = FakeHeaders
        /\ trace = <<"get_nodes", "GETorHEAD_base">>

\* A HEAD of an account that no replica of three has.
C7_Witness ==
    /\ Answered
    /\ req.method = "HEAD"
    /\ account_autocreate
    /\ outcomes = <<"not_found", "not_found", "not_found">>
    /\ resp.status = HTTP_NO_CONTENT

\* C8: a DELETE with a non-empty query string is answered bad-request,
\* account management enabled or not, and makes no node resolution, no cache
\* delete and no replica dispatch.
C8_DeleteQueryStringRejected ==
    (req.method = "DELETE" /\ req.query_string) =>
        /\ trace = <<>>
        /\ Answered => resp.status = HTTP_BAD_REQUEST

\* Such a DELETE with account management disabled.
C8_Witness ==
    /\ Answered
    /\ req.method = "DELETE"
    /\ req.query_string
    /\ ~allow_account_management
    /\ resp.status = HTTP_BAD_REQUEST

\* C9: with account management disabled, a PUT, and a DELETE without query
\* string, is answered method-not-allowed with an Allow list holding neither
\* PUT nor DELETE, and makes no cache delete and no replica dispatch; with it
\* enabled, the controller answers neither with method-not-allowed.
C9_AccountManagement ==
    (\/ req.method = "PUT"
     \/ req.method = "DELETE" /\ ~req.query_string) =>
        IF allow_account_management
        THEN Answered => resp.status # HTTP_METHOD_NOT_ALLOWED
        ELSE /\ trace = <<>>
             /\ Answered =>
                    /\ resp.status = HTTP_METHOD_NOT_ALLOWED
                    /\ resp.allow \cap {"PUT", "DELETE"} = {}
                    /\ resp.allow # {}

\* A DELETE without query string, account management disabled.
C9_Witness ==
    /\ Answered
    /\ req.method = "DELETE"
    /\ ~req.query_string
    /\ ~allow_account_management
    /\ resp.status = HTTP_METHOD_NOT_ALLOWED
    /\ resp.allow = {"GET", "HEAD", "POST"}

\* The system-metadata namespace: the names that begin, case ignored, with
\* x-account-sysmeta-, x-container-sysmeta- or x-object-sysmeta-.
SysMetaName(name) ==
    /\ Len(name) >= 3
    /\ LowerPiece(name[1]) = "x-"
    /\ LowerPiece(name[2]) \in {"account-", "container-", "object-"}
    /\ LowerPiece(name[3]) = "sysmeta-"

GatekeeperOrder == <<"inbound", "app", "outbound", "return">>

\* C10: the gatekeeper filters the request, then invokes the application,
\* then filters the response, then hands it back, in this order; the
\* application receives no header of the system-metadata namespace and
\* neither does the client, whatever the client sent and the application set.
C10_GatekeeperBoundary ==
    /\ Len(g_steps) <= Len(GatekeeperOrder)
    /\ \A i \in DOMAIN g_steps : g_steps[i] = GatekeeperOrder[i]
    /\ Len(g_steps) >= 2 => \A n \in DOMAIN g_seen : ~SysMetaName(n)
    /\ Len(g_steps) >= 2 => g_seen = g_req
    /\ Len(g_steps) = 4 =>
           /\ \A n \in DOMAIN g_got : ~SysMetaName(n)
           /\ g_got = g_resp

\* A request that carried a system-metadata header, answered by an
\* application that set one (in mixed case), has been handed back.
C10_Witness ==
    /\ gpc = "done"
    /\ g_steps = GatekeeperOrder
    /\ \E n \in DOMAIN g_sent : SysMetaName(n)
    /\ <<"X-", "Account-", "SysMeta-">> \in DOMAIN g_set
    /\ <<"foo">> \in DOMAIN g_got

\* The names two header mappings have in common, with equal values.
SubMap(f, g) ==
    /\ DOMAIN f \subseteq DOMAIN g
    /\ \A n \in DOMAIN f : f[n] = g[n]

\* What a filter made of a mapping: the names removed and the names
\* delivered split the original, each with the value it came with, and every
\* name that matches an exclusion pattern is among the removed.
FilterSplit(original, removed, delivered) ==
    /\ DOMAIN removed \cap DOMAIN delivered = {}
    /\ DOMAIN removed \cup DOMAIN delivered = DOMAIN original
    /\ SubMap(removed, original)
    /\ SubMap(delivered, original)
    /\ \A n \in DOMAIN original : SysMetaName(n) => n \in DOMAIN removed

PassedChecks == Count("get_nodes") = 1

\* C12: when no override applies, the decision of the fan-out reaches the
\* client as it is.  A PUT or DELETE that passed its checks has made exactly
\* one fan-out and no implicit create, and answers with the decision of that
\* fan-out, a missing account with autocreate enabled included.  A GET or HEAD
\* answers with the decision of the read unless that is not-found with
\* autocreate enabled.  A POST goes past its first fan-out only when the
\* decision in hand is not-found with autocreate enabled, and otherwise answers
\* with the decision of its single fan-out.
C12_DecisionVerbatim ==
    /\ req.method \in {"PUT", "DELETE"} =>
           /\ Count("make_requests") <= 1
           /\ Count("autocreate_account") = 0
           /\ Answered /\ PassedChecks =>
                  /\ Count("make_requests") = 1
                  /\ resp = make_requests(outcomes)
    /\ /\ req.method \in {"GET", "HEAD"}
       /\ Answered /\ PassedChecks
       /\ ~(read_response(outcomes, completed).status = HTTP_NOT_FOUND
              /\ account_autocreate)
       => /\ resp = read_response(outcomes, completed)
          /\ Count("GETorHEAD_base") = 1
    /\ req.method = "POST" =>
           /\ pc = "POST_autocreate" =>
                  /\ resp.status = HTTP_NOT_FOUND
                  /\ account_autocreate
                  /\ Count("make_requests") = 1
           /\ Answered /\ PassedChecks /\ Count("make_requests") = 1 =>
                  /\ resp = make_requests(outcomes)
                  /\ ~(resp.status = HTTP_NOT_FOUND /\ account_autocreate)
           /\ Answered /\ PassedChecks /\ ~account_autocreate =>
                  Count("make_requests") = 1

\* A PUT with autocreate enabled found no replica holding the account and
\* answers not-found after its one fan-out.
C12_Witness ==
    /\ Answered
    /\ req.method = "PUT"
    /\ account_autocreate
    /\ outcomes = <<"not_found", "not_found", "timeout">>
    /\ resp.status = HTTP_NOT_FOUND
    /\ trace = <<"get_nodes", "make_requests">>

\* The controller answered bad-request or method-not-allowed.
Rejected ==
    /\ Answered
    /\ resp.status \in {HTTP_BAD_REQUEST, HTTP_METHOD_NOT_ALLOWED}

\* C13: a request rejected with bad-request or method-not-allowed (name too
\* long, metadata that fails validation, DELETE with a query string, account
\* management disabled) leaves the world as it was: no cached entry deleted,
\* no account created implicitly, no request dispatched to a replica, nothing
\* tried again; and every such rejection has one of the causes listed.
C13_RejectionHasNoEffect ==
    /\ Rejected =>
           /\ Count("memcache_delete") = 0
           /\ Count("autocreate_account") = 0
           /\ Dispatches = 0
           /\ trace = <<>>
           /\ accounts = {}
           /\ outcomes = <<>>
           /\ completed = {}
           /\ resp.node = 0
    /\ Rejected =>
           /\ resp.status = HTTP_METHOD_NOT_ALLOWED => ~allow_account_management
           /\ \/ req.method \in {"GET", "HEAD", "PUT", "POST"} /\ NameTooLong(req)
              \/ req.method \in {"PUT", "POST"} /\ ~req.meta_ok
              \/ req.method = "DELETE" /\ req.query_string
              \/ req.method \in {"PUT", "DELETE"} /\ ~allow_account_management

\* A POST whose metadata fails validation was answered bad-request while the
\* cache holds the account info, with autocreate enabled.
C13_Witness ==
    /\ Rejected
    /\ req.method = "POST"
    /\ ~req.meta_ok
    /\ ~NameTooLong(req)
    /\ resp.status = HTTP_BAD_REQUEST
    /\ account_autocreate
    /\ memcache /\ memcache_up /\ cache = "old"
    /\ trace = <<>>

\* The calls of a handler that reach the ring and the replicas, in order.
IsCall(ev) == ev \in {"get_nodes", "make_requests", "autocreate_account"}

Calls == SelectSeq(trace, IsCall)

PostSaga == <<"get_nodes", "make_requests", "autocreate_account",
              "make_requests">>

\* C14: the retry saga of POST runs exactly when the decision of the first
\* POST fan-out is not-found and autocreate is enabled; any other first
\* decision, or autocreate disabled, gives a single fan-out.  Its order is the
\* first POST fan-out, the implicit create, the second POST fan-out, the
\* second one over the same nodes of the one partition lookup and with as many
\* envelopes; the second fan-out is issued whatever the outcome of the
\* implicit create.
C14_PostRetrySaga ==
    req.method = "POST" =>
        /\ Len(Calls) <= Len(PostSaga)
        /\ \A i \in DOMAIN Calls : Calls[i] = PostSaga[i]
        /\ pc = "POST_autocreate" =>
               /\ resp.status = HTTP_NOT_FOUND
               /\ account_autocreate
               /\ Len(Calls) = 2
        /\ Answered /\ PassedChecks => Len(Calls) \in {2, 4}
        /\ Answered /\ Len(Calls) = 2 =>
               ~(resp.status = HTTP_NOT_FOUND /\ account_autocreate)
        /\ Len(Calls) >= 3 =>
               /\ account_autocreate
               /\ pc \in {"POST_retry", "done"}
               /\ pc = "POST_retry" <=> Len(Calls) = 3
        /\ Len(Calls) = 4 =>
               /\ accounts = get_nodes(replica_count)
               /\ Len(outcomes) = EnvelopeCount(accounts)
               /\ resp = make_requests(outcomes)

\* A POST found the account missing, the implicit create failed, the cache
\* delete was made once, and the second fan-out was issued all the same and
\* decided not-found again.
C14_Witness ==
    /\ Answered
    /\ req.method = "POST"
    /\ trace = <<"get_nodes", "memcache_delete", "make_requests",
                 "autocreate_account", "autocreate_failed", "make_requests">>
    /\ replica_count = 3
    /\ Len(outcomes) = 3
    /\ resp.status = HTTP_NOT_FOUND

\* The cache store is not configured, or its delete fails.
CacheUnavailable == ~memcache \/ ~memcache_up

\* C15: when the cache store is unavailable (not configured, or its delete
\* fails) a PUT, POST or DELETE that passed its checks still goes on to the
\* fan-out and answers with the decision of the quorum; the cache is never the
\* reason a request fails or stops: with no store configured no delete is
\* attempted, and a delete that fails is followed by the fan-out.
C15_CacheFailureTolerated ==
    req.method \in WriteMethods /\ CacheUnavailable =>
        /\ ~memcache => Count("memcache_delete") = 0
        /\ memcache /\ PassedChecks /\ pc \notin
               {"PUT_memcache", "POST_memcache", "DELETE_memcache"} =>
               Count("memcache_delete") = 1
        /\ Answered /\ PassedChecks =>
               /\ Count("make_requests") >= 1
               /\ Len(outcomes) = replica_count
               /\ resp = make_requests(outcomes)

\* The store is configured but out of reach: a PUT left the stale entry in
\* place, made its fan-out and answers with the success the quorum decided.
C15_Witness ==
    /\ Answered
    /\ req.method = "PUT"
    /\ memcache /\ ~memcache_up
    /\ cache = "old"
    /\ trace = <<"get_nodes", "memcache_delete", "make_requests">>
    /\ outcomes = <<"success", "success", "timeout">>
    /\ IsSuccess(resp.status)

\* The names a filter took out of a mapping are exactly those of the
\* system-metadata namespace.
RemovedIffSysMeta(original, delivered) ==
    \A n \in DOMAIN original : n \notin DOMAIN delivered <=> SysMetaName(n)

\* C16: the gatekeeper removes a header if and only if its name begins, case
\* ignored, with one of the three system-metadata prefixes.  The test is
\* anchored at the start of the name only: a name that extends a prefix is
\* removed, in any mix of cases, and so is the bare prefix; a name that
\* contains a prefix after its first character is kept, and so are the
\* user-metadata names and the names that have nothing of a prefix.
C16_PrefixMatch ==
    /\ Len(g_steps) >= 1 => RemovedIffSysMeta(g_sent, g_req)
    /\ Len(g_steps) >= 3 => RemovedIffSysMeta(g_set, g_resp)
    /\ Len(g_steps) = 4 => RemovedIffSysMeta(g_set, g_got)
    /\ Len(g_steps) >= 2 =>
           /\ \A n \in {<<"x-", "account-", "sysmeta-", "foo">>,
                         <<"X-", "Account-", "SysMeta-">>,
                         <<"x-", "container-", "sysmeta-", "foo">>,
                         <<"X-", "OBJECT-", "sysmeta-", "foo">>} :
                  n \notin DOMAIN g_seen
           /\ \A n \in {<<"foo", "x-", "account-", "sysmeta-">>,
                         <<"x-", "account-", "meta-", "foo">>,
                         <<"foo">>} :
                  n \in DOMAIN g_sent => n \in DOMAIN g_seen

\* A request came with the bare account prefix in mixed case and with a name
\* that holds the prefix after its first piece: the application saw the
\* second one only.
C16_Witness ==
    /\ Len(g_steps) >= 2
    /\ DOMAIN g_sent = {<<"X-", "Account-", "SysMeta-">>,
                        <<"foo", "x-", "account-", "sysmeta-">>}
    /\ DOMAIN g_seen = {<<"foo", "x-", "account-", "sysmeta-">>}

\* The answer is the error response of the named check.
RejectedWith(status, body) ==
    /\ resp.status = status
    /\ resp.body = body
    /\ trace = <<>>

\* C17: the order of the checks.  PUT looks at account management first
\* (405), then at the metadata, then at the length of the name; POST looks at
\* the length of the name, then at the metadata; DELETE looks at the query
\* string, then at account management, and at neither the length of the name
\* nor the metadata; GET and HEAD look at the length of the name only.  The
\* first check that fails decides the answer, and a request that fails none
\* goes on to the replica nodes.
C17_CheckOrder ==
    Answered =>
        /\ req.method = "PUT" =>
               IF ~allow_account_management
               THEN RejectedWith(HTTP_METHOD_NOT_ALLOWED, "")
               ELSE IF ~req.meta_ok
               THEN RejectedWith(HTTP_BAD_REQUEST, "metadata")
               ELSE IF NameTooLong(req)
               THEN RejectedWith(HTTP_BAD_REQUEST, "name_length")
               ELSE PassedChecks
        /\ req.method = "POST" =>
               IF NameTooLong(req)
               THEN RejectedWith(HTTP_BAD_REQUEST, "name_length")
               ELSE IF ~req.meta_ok
               THEN RejectedWith(HTTP_BAD_REQUEST, "metadata")
               ELSE PassedChecks
        /\ req.method = "DELETE" =>
               IF req.query_string
               THEN RejectedWith(HTTP_BAD_REQUEST, "")
               ELSE IF ~allow_account_management
               THEN RejectedWith(HTTP_METHOD_NOT_ALLOWED, "")
               ELSE PassedChecks
        /\ req.method \in {"GET", "HEAD"} =>
               IF NameTooLong(req)
               THEN RejectedWith(HTTP_BAD_REQUEST, "name_length")
               ELSE PassedChecks

\* A POST with a name too long and with metadata that fails validation was
\* answered for the length of its name.
C17_Witness ==
    /\ Answered
    /\ req.method = "POST"
    /\ NameTooLong(req)
    /\ ~req.meta_ok
    /\ RejectedWith(HTTP_BAD_REQUEST, "name_length")

\* The answer of GET, HEAD and POST, told from the request, the autocreate
\* flag and the replica outcomes alone: account management is not read.
UnmanagedAnswer ==
    IF NameTooLong(req)
    THEN [HTTPBadRequest EXCEPT !.body = "name_length"]
    ELSE IF req.method = "POST"
    THEN IF ~req.meta_ok
         THEN [HTTPBadRequest EXCEPT !.body = "metadata"]
         ELSE make_requests(outcomes)
    ELSE IF read_response(outcomes, completed).status = HTTP_NOT_FOUND
            /\ account_autocreate
    THEN HTTPNoContent(FakeHeaders)
    ELSE read_response(outcomes, completed)

\* C18: GET, HEAD and POST are never answered method-not-allowed by the
\* controller, and their handling is the same with account management enabled
\* and disabled: the answer follows from the request, the autocreate flag and
\* the replica outcomes alone.  With account management disabled a POST with a
\* valid name and valid metadata still deletes the cached entry (when a cache
\* is configured) and dispatches to every replica.
C18_ManagementOnlyGatesPutDelete ==
    req.method \in {"GET", "HEAD", "POST"} =>
        /\ resp.status # HTTP_METHOD_NOT_ALLOWED
        /\ resp.allow = {}
        /\ Answered => resp = UnmanagedAnswer
        /\ (/\ Answered
            /\ req.method = "POST"
            /\ ~allow_account_management
            /\ ~NameTooLong(req)
            /\ req.meta_ok) =>
               /\ memcache => Count("memcache_delete") = 1
               /\ memcache /\ memcache_up => cache = "none"
               /\ Count("make_requests") >= 1
               /\ accounts = get_nodes(replica_count)
               /\ Len(outcomes) = replica_count

\* Account management is disabled and the cache held the account info: a
\* valid POST dropped the entry and got its success from three replicas.
C18_Witness ==
    /\ Answered
    /\ req.method = "POST"
    /\ ~allow_account_management
    /\ allowed_methods = {"GET", "HEAD", "POST"}
    /\ memcache /\ memcache_up /\ cache = "none"
    /\ trace = <<"get_nodes", "memcache_delete", "make_requests">>
    /\ outcomes = <<"success", "success", "success">>
    /\ IsSuccess(resp.status)

====
